---- MODULE Spec2Model ----
(***************************************************************************)
(* Workflow execution engine (workflow_engine.py): VariableResolver and    *)
(* WorkflowRunner, with the data model of models.py.                       *)
(*                                                                         *)
(* A step id is the step's position in Workflow.steps; its name is         *)
(* Names[id].  A text (command, condition expression) is a sequence of     *)
(* tokens: literal words, {key} placeholders and {ref.property}            *)
(* placeholders.  Dictionaries live in a heap of objects so that two       *)
(* references to "the" result map can be told apart.                       *)
(***************************************************************************)
EXTENDS Integers, Sequences, FiniteSets, TLC

VARIABLES
    steps,            \* Workflow.steps
    execution_mode,   \* Workflow.execution_mode
    dry_run,          \* WorkflowRunner.dry_run
    running,          \* WorkflowRunner.running
    heap,             \* the dict objects created so far, by allocation order
    results,          \* WorkflowRunner.results: a reference into heap
    resolver,         \* the run's VariableResolver (execution_results is a reference)
    pc,               \* where the thread driving execute_workflow stands
    idx,              \* loop position of the driving thread
    pending_steps,    \* _execute_parallel: pending_steps
    completed_steps,  \* _execute_parallel: completed_steps
    sweep,            \* _execute_parallel: what the final loop has still to visit
    exec,             \* per step: the _execute_step call made for it in this run
    reported,         \* per step: statuses passed to status_callback in this run
    run_reports,      \* status_callback(None, None, ...) calls in this run
    error,            \* the exception that is propagating / was caught at the run boundary
    proc,             \* environment: what the step's command does when launched
    calls_left,       \* how many more calls of execute_workflow the caller makes
    returned,         \* what execute_workflow returned (and the mode it ran in), in call order
    status_callback,  \* WorkflowRunner.status_callback: the statuses on which it raises
    escaped,          \* the exception the last call of execute_workflow raised to its caller
    call,             \* the last call made on a VariableResolver by a caller of its own
    objects,          \* editor: the WorkflowStep objects created so far, by allocation order
    current_workflow, \* editor: app.current_workflow.steps, references into objects
    run_workflow,     \* editor: the steps of the workflow run_from_step handed to run_workflow
    connection_start_node  \* canvas: the node a connection is being dragged from

vars == <<steps, execution_mode, dry_run, running, heap, results, resolver, pc, idx,
          pending_steps, completed_steps, sweep, exec, reported, run_reports,
          error, proc, calls_left, returned, status_callback, escaped,
          call, objects, current_workflow, run_workflow, connection_start_node>>

\* the state of the engine, of a resolver used on its own, and of the editor
resolver_vars == <<call>>
editor_vars == <<objects, current_workflow, run_workflow, connection_start_node>>

-----------------------------------------------------------------------------
(* Bounds of the model *)

NumSteps == 3
MaxDeps == 2
MaxCalls == 1

Steps == 1..NumSteps
Names == <<"A", "B", "C", "D", "E", "F">>

-----------------------------------------------------------------------------
(* models.py *)

StepStatus == {"pending", "running", "success", "failed", "skipped", "timeout"}
ExecutionMode == {"sequential", "parallel"}

\* ExecutionResult(step_id, status, start_time) with the dataclass defaults
ExecutionResult(status) ==
    [status |-> status, stdout |-> <<"">>, stderr |-> "", exit_code |-> 0,
     error_message |-> ""]

\* WorkflowStep
WorkflowStep(enabled, dependencies, condition_type, condition_expression, command) ==
    [enabled |-> enabled, dependencies |-> dependencies,
     condition_type |-> condition_type,
     condition_expression |-> condition_expression, command |-> command]

-----------------------------------------------------------------------------
(* Texts *)

Lit(w) == [k |-> "lit", a |-> w, b |-> ""]
Var(key) == [k |-> "var", a |-> key, b |-> ""]
Ref(ref, prop) == [k |-> "ref", a |-> ref, b |-> prop]

\* str(int) for the integers the engine prints
IntStr(n) == CASE n = 0 -> "0" [] n = 1 -> "1" [] n = 2 -> "2" [] n = 3 -> "3"
               [] n = -1 -> "-1" [] OTHER -> "n"

IsIntStr(w) == w \in {"0", "1", "2", "3", "-1"}

IntOf(w) == CASE w = "0" -> 0 [] w = "1" -> 1 [] w = "2" -> 2 [] w = "3" -> 3
              [] w = "-1" -> -1 [] OTHER -> 0

-----------------------------------------------------------------------------
(* VariableResolver *)

SupportedProperties == {"exit_code", "findings_count", "status"}

\* the text a {ref.property} token is replaced by, given the referenced result
PropertyText(result, prop) ==
    CASE prop = "exit_code" -> Lit(IntStr(result.exit_code))
      [] prop = "findings_count" ->
            Lit(IntStr(IF result.stdout = <<"">> THEN 0 ELSE Len(result.stdout)))
      [] prop = "status" -> Lit(result.status)
      [] OTHER -> Ref("previous_step", prop)

\* VariableResolver.__init__: `execution_results or {}` keeps the caller's dict
\* only when it is non-empty; an empty (or missing) dict is replaced by a new one.
\* Returns the resolver and the heap after the construction.
VariableResolver(variables, execution_results, h) ==
    IF execution_results # 0 /\ DOMAIN h[execution_results] # {}
    THEN [resolver |-> [variables |-> variables,
                        execution_results |-> execution_results],
          heap |-> h]
    ELSE [resolver |-> [variables |-> variables,
                        execution_results |-> Len(h) + 1],
          heap |-> Append(h, <<>>)]

\* what stands between the braces of a token: <<key, "">> for {key},
\* <<ref, property>> for {ref.property}; the variable mapping is keyed by these
Name(t) == <<t.a, t.b>>

\* one token of resolve(): the special variables first, the regular ones after
ResolveToken(t, current_step_id) ==
    LET er == heap[resolver.execution_results]
        previous_step_id == current_step_id - 1
        byPrevious == /\ t.a = "previous_step"
                      /\ current_step_id \in 1..Len(steps)
                      /\ current_step_id > 1
                      /\ previous_step_id \in DOMAIN er
                      /\ t.b \in SupportedProperties
        named == {id \in 1..Len(steps) : Names[id] = t.a}
        byName == /\ named # {}
                  /\ (CHOOSE id \in named : TRUE) \in DOMAIN er
                  /\ t.b \in SupportedProperties
        isKey == Name(t) \in DOMAIN resolver.variables
    IN  CASE t.k = "ref" /\ ~isKey /\ byPrevious -> PropertyText(er[previous_step_id], t.b)
          [] t.k = "ref" /\ ~isKey /\ ~byPrevious /\ byName ->
                PropertyText(er[CHOOSE id \in named : TRUE], t.b)
          [] t.k \in {"var", "ref"} /\ isKey ->
                Lit(resolver.variables[Name(t)])
          [] OTHER -> t

resolve(text, current_step_id) ==
    [i \in 1..Len(text) |-> ResolveToken(text[i], current_step_id)]

\* validate_variables that leaves out the references resolve() knows how to read
validate_variables_knows_references(text) ==
    {i \in 1..Len(text) : /\ text[i].k \in {"var", "ref"}
                          /\ Name(text[i]) \notin DOMAIN resolver.variables
                          /\ ~(text[i].k = "ref" /\ text[i].b \in SupportedProperties)}

\* the {tokens} of text that are no key of the variable mapping
validate_variables(text) ==
    {i \in 1..Len(text) : /\ text[i].k \in {"var", "ref"}
                          /\ Name(text[i]) \notin DOMAIN resolver.variables}

-----------------------------------------------------------------------------
(* WorkflowRunner.evaluate_condition *)

\* the words of the texts that have w as a substring
WordsWith(w) == IF w = "True" THEN {"True", "isTrue"} ELSE {w}

\* `w in text`, a substring test
Contains(text, w) ==
    \E i \in 1..Len(text) : text[i].k = "lit" /\ text[i].a \in WordsWith(w)

ComparisonOps == {"==", "!=", "<", ">", "<=", ">="}

Compare(x, op, y) ==
    CASE op = "==" -> x = y
      [] op = "!=" -> x # y
      [] op = "<" -> x < y
      [] op = ">" -> x > y
      [] op = "<=" -> x <= y
      [] OTHER -> x >= y

\* the operands Python evaluates with no builtins and no names: integer and
\* boolean literals, and expressions built on literals alone, calls included
Operands == {"0", "1", "2", "3", "-1", "True", "False", "().__len__()"}

\* the value of an operand, booleans as the integers they are
ValueOf(w) == CASE w = "True" -> 1 [] w = "False" -> 0 [] w = "().__len__()" -> 0
                [] OTHER -> IntOf(w)

\* eval(resolved_expression, {"__builtins__": {}}, {}): the value's truth, or
\* raised (a name, an unresolved {token}, a syntax error)
eval(text) ==
    IF /\ Len(text) = 3
       /\ \A i \in {1, 3} : text[i].k = "lit" /\ text[i].a \in Operands
       /\ text[2].k = "lit" /\ text[2].a \in ComparisonOps
    THEN [raised |-> FALSE,
          value |-> Compare(ValueOf(text[1].a), text[2].a, ValueOf(text[3].a))]
    ELSE IF Len(text) = 1 /\ text[1].k = "lit" /\ text[1].a \in Operands
    THEN [raised |-> FALSE, value |-> ValueOf(text[1].a) # 0]
    ELSE [raised |-> TRUE, value |-> FALSE]

\* evaluate_condition with `except Exception: return True`
evaluate_condition_failure_runs(step, id) ==
    IF step.condition_type = "none" \/ step.condition_expression = <<>>
    THEN TRUE
    ELSE LET resolved_expression == resolve(step.condition_expression, id)
             shortcut == Contains(resolved_expression, "True")
                            # Contains(resolved_expression, "False")
             result == IF shortcut THEN Contains(resolved_expression, "True")
                       ELSE eval(resolved_expression).value
         IN  IF ~shortcut /\ eval(resolved_expression).raised
             THEN TRUE
             ELSE IF step.condition_type = "if" THEN result ELSE ~result

\* evaluate_condition with the failure taken as a false result and negated
\* for `unless` like any other
evaluate_condition_failure_negated(step, id) ==
    IF step.condition_type = "none" \/ step.condition_expression = <<>>
    THEN TRUE
    ELSE LET resolved_expression == resolve(step.condition_expression, id)
             shortcut == Contains(resolved_expression, "True")
                            # Contains(resolved_expression, "False")
             result == IF shortcut THEN Contains(resolved_expression, "True")
                       ELSE eval(resolved_expression).value
         IN  IF step.condition_type = "if" THEN result ELSE ~result

\* evaluate_condition without the negation for `unless`
evaluate_condition_unless_as_if(step, id) ==
    IF step.condition_type = "none" \/ step.condition_expression = <<>>
    THEN TRUE
    ELSE LET resolved_expression == resolve(step.condition_expression, id)
             shortcut == Contains(resolved_expression, "True")
                            # Contains(resolved_expression, "False")
             result == IF shortcut THEN Contains(resolved_expression, "True")
                       ELSE eval(resolved_expression).value
         IN  IF ~shortcut /\ eval(resolved_expression).raised
             THEN FALSE
             ELSE result

evaluate_condition(step, id) ==
    IF step.condition_type = "none" \/ step.condition_expression = <<>>
    THEN TRUE
    ELSE LET resolved_expression == resolve(step.condition_expression, id)
             shortcut == Contains(resolved_expression, "True")
                            # Contains(resolved_expression, "False")
             result == IF shortcut THEN Contains(resolved_expression, "True")
                       ELSE eval(resolved_expression).value
         IN  IF ~shortcut /\ eval(resolved_expression).raised
             THEN FALSE
             ELSE IF step.condition_type = "if" THEN result ELSE ~result

-----------------------------------------------------------------------------
(* WorkflowRunner._run_command and _execute_step *)

\* what the environment can do with a launched command
Outcomes == {"exit0", "exit1", "timeout", "oserror", "notfound"}

\* _run_command: always a {stdout, stderr, exit_code} triple
run_command(outcome) ==
    CASE outcome = "exit0" -> [stdout |-> <<"out", "">>, stderr |-> "", exit_code |-> 0]
      [] outcome = "exit1" -> [stdout |-> <<"">>, stderr |-> "err", exit_code |-> 1]
      [] outcome = "timeout" -> [stdout |-> <<"">>, stderr |-> "", exit_code |-> -1]
      [] OTHER -> [stdout |-> <<"">>, stderr |-> "err", exit_code |-> -1]

\* result.status = SUCCESS if result.exit_code == 0 else FAILED
StatusOfExit(exit_code) == IF exit_code = 0 THEN "success" ELSE "failed"

\* does _execute_step consult the environment (shutil.which, subprocess.run)?
ConsultsEnvironment(step, id) ==
    /\ ~dry_run
    /\ validate_variables(resolve(step.command, id)) = {}

\* the result _execute_step returns for a step whose command behaves as outcome.
\* _run_command returns a triple for every outcome, so nothing reaches the
\* `except subprocess.TimeoutExpired` clause; the other raises end in FAILED
\* with exit_code left at its default.
execute_step(step, id, outcome) ==
    LET resolved_command == resolve(step.command, id)
        unresolved == validate_variables(resolved_command)
        start == ExecutionResult("running")
    IN  IF unresolved # {}
        THEN [start EXCEPT !.status = "failed", !.error_message = "Unresolved variables"]
        ELSE IF resolved_command # <<>> /\ ~dry_run /\ outcome = "notfound"
        THEN [start EXCEPT !.status = "failed", !.error_message = "not found in PATH"]
        ELSE IF dry_run
        THEN [start EXCEPT !.status = "success", !.stdout = <<"DRY RUN: Would execute">>]
        ELSE LET process_result == run_command(outcome)
             IN  [start EXCEPT !.stdout = process_result.stdout,
                               !.stderr = process_result.stderr,
                               !.exit_code = process_result.exit_code,
                               !.status = StatusOfExit(process_result.exit_code)]

\* _get_dependency_statuses taking a dependency without a result for a success
get_dependency_statuses_absent_success(dependencies) ==
    [d \in dependencies |-> IF d \in DOMAIN heap[results]
                            THEN heap[results][d].status ELSE "success"]

\* _get_dependency_statuses, read from self.results
get_dependency_statuses(dependencies) ==
    [d \in dependencies |-> IF d \in DOMAIN heap[results]
                            THEN heap[results][d].status ELSE "pending"]

\* all(s == StepStatus.SUCCESS for s in dep_statuses)
DependenciesMet(dependencies) ==
    \A d \in dependencies : get_dependency_statuses(dependencies)[d] = "success"

\* _skip_step without `self.results[step.id] = result`
skip_step_unrecorded(id, message) == heap

\* _skip_step: the result map after the skip is recorded
skip_step(id, message) ==
    [heap EXCEPT ![results] =
        [s \in DOMAIN heap[results] \cup {id} |->
            IF s = id THEN [ExecutionResult("skipped") EXCEPT !.error_message = message]
            ELSE heap[results][s]]]

\* the sequential loop without `self.results[step.id] = result`
record_result_dropped(id, result) == heap

\* self.results[step.id] = result
record_result(id, result) ==
    [heap EXCEPT ![results] =
        [s \in DOMAIN heap[results] \cup {id} |->
            IF s = id THEN result ELSE heap[results][s]]]

Report(id, status) == [reported EXCEPT ![id] = Append(@, status)]

\* does the call status_callback(step_id, status, message) raise?
CallbackRaises(status) == status \in status_callback

-----------------------------------------------------------------------------
(* The workflows and the calls the model explores *)

PlainCommand == <<Lit("run")>>
EchoPrevious == <<Lit("echo"), Ref("previous_step", "exit_code")>>
NeverTrue == <<Lit("1"), Lit("=="), Lit("2")>>

\* what a step can be, its dependencies apart
StepKinds ==
    { [enabled |-> TRUE, condition_type |-> "none", condition_expression |-> <<>>,
       command |-> PlainCommand],
      [enabled |-> FALSE, condition_type |-> "none", condition_expression |-> <<>>,
       command |-> PlainCommand],
      [enabled |-> TRUE, condition_type |-> "if", condition_expression |-> NeverTrue,
       command |-> PlainCommand],
      [enabled |-> TRUE, condition_type |-> "none", condition_expression |-> <<>>,
       command |-> EchoPrevious] }

PreviousExitedZero == <<Ref("previous_step", "exit_code"), Lit("=="), Lit("0")>>
CallsMethod == <<Lit("().__len__()"), Lit("=="), Lit("0")>>
NamesIdentifier == <<Lit("isTrue")>>

\* a disabled step, and steps with a condition: on the previous step's exit code
\* (if and unless), on a method call, on an identifier, on a comparison of integers
ConditionKinds ==
    { [enabled |-> FALSE, condition_type |-> "none", condition_expression |-> <<>>,
       command |-> PlainCommand],
      [enabled |-> TRUE, condition_type |-> "if",
       condition_expression |-> PreviousExitedZero, command |-> PlainCommand],
      [enabled |-> TRUE, condition_type |-> "unless",
       condition_expression |-> PreviousExitedZero, command |-> PlainCommand],
      [enabled |-> TRUE, condition_type |-> "if",
       condition_expression |-> CallsMethod, command |-> PlainCommand],
      [enabled |-> TRUE, condition_type |-> "if",
       condition_expression |-> NamesIdentifier, command |-> PlainCommand],
      [enabled |-> TRUE, condition_type |-> "unless",
       condition_expression |-> NeverTrue, command |-> PlainCommand] }

\* an id that is no step's
UnknownStep == NumSteps + 1

\* dependency edges <<step, dependency>>: any graph, cycles and self-loops included
EdgeSets == {E \in SUBSET (Steps \X Steps) : Cardinality(E) <= MaxDeps}

\* global_vars and step_vars merged
GlobalVars == <<"target", "">> :> "host"

\* the callbacks set with set_status_callback: one that only records, one that
\* raises when handed a step's outcome, one that raises on every call
CallbackKinds ==
    { {}, {"skipped", "success", "failed", "timeout"}, StepStatus \cup {"null"} }

\* no call on a resolver of the caller's own has been made
NoCall == [text |-> <<>>, current_step_id |-> 0, resolved |-> <<>>, unresolved |-> {}]

NoExec == [phase |-> "none", result |-> ExecutionResult("pending")]

\* a constructed runner, a workflow, and a caller about to make `calls` calls
ConstructedFrom(step_kinds, calls, edges) ==
    /\ \E kinds \in [Steps -> step_kinds], E \in edges :
          steps = [i \in Steps |->
                     WorkflowStep(kinds[i].enabled,
                                  {d \in Steps \cup {UnknownStep} : <<i, d>> \in E},
                                  kinds[i].condition_type,
                                  kinds[i].condition_expression, kinds[i].command)]
    /\ execution_mode = "sequential"
    /\ dry_run \in BOOLEAN
    /\ running = FALSE
    /\ heap = << <<>> >>
    /\ results = 1
    /\ resolver = [variables |-> GlobalVars, execution_results |-> 0]
    /\ pc = "idle"
    /\ idx = 0
    /\ pending_steps = {}
    /\ completed_steps = {}
    /\ sweep = {}
    /\ exec = [s \in Steps |-> NoExec]
    /\ reported = [s \in Steps |-> <<>>]
    /\ run_reports = 0
    /\ error = "none"
    /\ proc = [s \in Steps |-> "unset"]
    /\ calls_left = calls
    /\ returned = <<>>
    /\ status_callback \in CallbackKinds
    /\ escaped = "none"
    /\ call = NoCall
    /\ objects = <<>>
    /\ current_workflow = <<>>
    /\ run_workflow = <<>>
    /\ connection_start_node = 0

Constructed(calls, edges) == ConstructedFrom(StepKinds, calls, edges)

Init == Constructed(MaxCalls, EdgeSets)

\* the same runner called once more, on workflows with at most one dependency
InitTwoCalls == Constructed(MaxCalls + 1, {E \in EdgeSets : Cardinality(E) < MaxDeps})

\* a real run of a workflow whose steps carry conditions, at most one dependency
InitConditions ==
    /\ ConstructedFrom(ConditionKinds, MaxCalls, {E \in EdgeSets : Cardinality(E) < MaxDeps})
    /\ ~dry_run

\* the workflows on which the decisions of evaluate_condition are tabulated
DecisionKinds ==
    {k \in ConditionKinds :
        \/ ~k.enabled
        \/ k.condition_type = "if" /\ k.condition_expression = PreviousExitedZero
        \/ k.condition_type = "unless" /\ k.condition_expression = NeverTrue}

InitDecisions ==
    /\ ConstructedFrom(DecisionKinds, MaxCalls, {E \in EdgeSets : Cardinality(E) < MaxDeps})
    /\ ~dry_run

\* a real run of a workflow with at most one dependency, which may be on the
\* step itself, on another step, or on an id that is no step's
InitTermination ==
    /\ ConstructedFrom({k \in StepKinds : k.command = PlainCommand}, MaxCalls,
                       {E \in SUBSET (Steps \X (Steps \cup {UnknownStep})) :
                           Cardinality(E) < MaxDeps})
    /\ ~dry_run

-----------------------------------------------------------------------------
(* A VariableResolver constructed and called by a caller of its own *)

\* variable mappings: the usual one, one with a key that has a dot in it, none
VariableMappings ==
    { GlobalVars,
      GlobalVars @@ (<<"previous_step", "exit_code">> :> "7"),
      <<>> }

\* result maps handed to the constructor: any steps, succeeded or failed
ResultMaps ==
    UNION { [S -> { [ExecutionResult("success") EXCEPT !.stdout = <<"out", "">>],
                    [ExecutionResult("failed") EXCEPT !.exit_code = 1] }] :
            S \in SUBSET Steps }

MaxTextLen == 2

Tokens == { Lit("echo"), Var("target"), Var("undefined"),
            Ref("previous_step", "exit_code"), Ref("A", "status") }

\* the texts of at most MaxTextLen tokens
Texts == UNION { [1..n -> Tokens] : n \in 0..MaxTextLen }

InitResolver ==
    /\ steps \in [Steps -> { WorkflowStep(e, {}, "none", <<>>, PlainCommand) : e \in BOOLEAN }]
    /\ \E variables \in VariableMappings, execution_results \in ResultMaps :
          LET built == VariableResolver(variables, 1, <<execution_results>>)
          IN  heap = built.heap /\ resolver = built.resolver
    /\ results = 1
    /\ call = NoCall
    /\ execution_mode = "sequential"
    /\ dry_run = FALSE
    /\ running = FALSE
    /\ pc = "idle"
    /\ idx = 0
    /\ pending_steps = {}
    /\ completed_steps = {}
    /\ sweep = {}
    /\ exec = [s \in Steps |-> NoExec]
    /\ reported = [s \in Steps |-> <<>>]
    /\ run_reports = 0
    /\ error = "none"
    /\ proc = [s \in Steps |-> "unset"]
    /\ calls_left = 0
    /\ returned = <<>>
    /\ status_callback = {}
    /\ escaped = "none"
    /\ objects = <<>>
    /\ current_workflow = <<>>
    /\ run_workflow = <<>>
    /\ connection_start_node = 0

\* resolver.resolve(text, current_step_id) and resolver.validate_variables(text);
\* current_step_id 0 stands for None and for an id that is no step's
Call(text, current_step_id) ==
    /\ call' = [text |-> text, current_step_id |-> current_step_id,
                resolved |-> resolve(text, current_step_id),
                unresolved |-> validate_variables(text)]
    /\ UNCHANGED <<editor_vars, steps, execution_mode, dry_run, running, heap, results,
                   resolver, pc, idx, pending_steps, completed_steps, sweep, exec,
                   reported, run_reports, error, proc, calls_left, returned,
                   status_callback, escaped>>

NextResolver == \E text \in Texts, current_step_id \in 0..NumSteps : Call(text, current_step_id)

SpecResolver == InitResolver /\ [][NextResolver]_vars

-----------------------------------------------------------------------------
(* WorkflowRunner.execute_workflow *)

\* ready_steps without the `if not step.dependencies` filter
ready_steps_unfiltered == [i \in 1..Len(steps) |-> i]

\* ready_steps = [step.id for step in workflow.steps if not step.dependencies]
ready_steps == SelectSeq([i \in 1..Len(steps) |-> i], LAMBDA i : steps[i].dependencies = {})

\* a runner that empties the result map it already has instead of creating one
ExecuteWorkflow_reuses_map(mode) ==
    /\ pc = "idle"
    /\ calls_left > 0
    /\ calls_left' = calls_left - 1
    /\ execution_mode' = mode
    /\ running' = TRUE
    /\ LET fresh == IF results = 0 THEN Append(heap, <<>>)
                    ELSE [heap EXCEPT ![results] = <<>>]
           map   == IF results = 0 THEN Len(fresh) ELSE results
           built == VariableResolver(GlobalVars, map, fresh)
       IN  /\ results' = map
           /\ heap' = built.heap
           /\ resolver' = built.resolver
    /\ exec' = [s \in Steps |-> NoExec]
    /\ reported' = [s \in Steps |-> <<>>]
    /\ run_reports' = 0
    /\ error' = "none"
    /\ escaped' = "none"
    /\ sweep' = {}
    /\ completed_steps' = {}
    /\ idx' = 1
    /\ IF mode = "sequential"
       THEN pc' = "sequential" /\ pending_steps' = {}
       ELSE pc' = "submit" /\ pending_steps' = 1..Len(steps)
    /\ UNCHANGED <<resolver_vars, editor_vars, status_callback, steps, dry_run,
                   proc, returned>>

\* the call: fresh result map, running flag, resolver, dispatch on the mode
ExecuteWorkflow(mode) ==
    /\ pc = "idle"
    /\ calls_left > 0
    /\ calls_left' = calls_left - 1
    /\ execution_mode' = mode
    /\ running' = TRUE
    /\ LET fresh == Append(heap, <<>>)
           built == VariableResolver(GlobalVars, Len(fresh), fresh)
       IN  /\ results' = Len(fresh)
           /\ heap' = built.heap
           /\ resolver' = built.resolver
    /\ exec' = [s \in Steps |-> NoExec]
    /\ reported' = [s \in Steps |-> <<>>]
    /\ run_reports' = 0
    /\ error' = "none"
    /\ escaped' = "none"
    /\ sweep' = {}
    /\ completed_steps' = {}
    /\ idx' = 1
    /\ IF mode = "sequential"
       THEN pc' = "sequential" /\ pending_steps' = {}
       ELSE pc' = "submit" /\ pending_steps' = 1..Len(steps)
    /\ UNCHANGED <<resolver_vars, editor_vars, status_callback, steps, dry_run, proc, returned>>

\* the call when _prepare_sandbox raises (mkdir or chmod refused): no resolver is
\* built and no strategy is entered
PrepareSandboxFails(mode) ==
    /\ pc = "idle"
    /\ calls_left > 0
    /\ calls_left' = calls_left - 1
    /\ execution_mode' = mode
    /\ running' = TRUE
    /\ heap' = Append(heap, <<>>)
    /\ results' = Len(heap) + 1
    /\ exec' = [s \in Steps |-> NoExec]
    /\ reported' = [s \in Steps |-> <<>>]
    /\ run_reports' = 0
    /\ error' = "OSError"
    /\ escaped' = "none"
    /\ sweep' = {}
    /\ completed_steps' = {}
    /\ pending_steps' = {}
    /\ idx' = 1
    /\ pc' = "except"
    /\ UNCHANGED <<resolver_vars, editor_vars, status_callback, steps, dry_run, proc, returned, resolver>>

\* the handler without the status_callback(None, None, ...) call
Handler_silent ==
    /\ pc = "except"
    /\ pc' = "finally"
    /\ UNCHANGED <<resolver_vars, editor_vars, status_callback, escaped, steps, execution_mode, dry_run, running,
                   heap, results, resolver, idx, pending_steps, completed_steps, sweep,
                   exec, reported, run_reports, error, proc, calls_left, returned>>

\* except Exception: status_callback(None, None, "Workflow failed: ...")
Handler ==
    /\ pc = "except"
    /\ run_reports' = run_reports + 1
    /\ IF CallbackRaises("null")
       THEN pc' = "finally_raising" /\ error' = "CallbackError"
       ELSE pc' = "finally" /\ error' = error
    /\ UNCHANGED <<resolver_vars, editor_vars, status_callback, escaped, steps, execution_mode, dry_run, running,
                   heap, results, resolver, idx, pending_steps, completed_steps, sweep,
                   exec, reported, proc, calls_left, returned>>

\* finally: self.running = False; return self.results
Return ==
    /\ pc = "finally"
    /\ running' = FALSE
    /\ returned' = Append(returned, [mode |-> execution_mode, results |-> results])
    /\ pc' = "idle"
    /\ UNCHANGED <<resolver_vars, editor_vars, status_callback, escaped, steps, execution_mode, dry_run, heap,
                   results, resolver, idx, pending_steps, completed_steps, sweep, exec,
                   reported, run_reports, error, proc, calls_left>>

\* the exception of the handler leaving without the `finally` clause
Raise_flag_kept ==
    /\ pc = "finally_raising"
    /\ escaped' = error
    /\ pc' = "idle"
    /\ UNCHANGED <<resolver_vars, editor_vars, status_callback, steps, execution_mode, dry_run, running, heap,
                   results, resolver, idx, pending_steps, completed_steps, sweep, exec,
                   reported, run_reports, error, proc, calls_left, returned>>

\* finally: self.running = False, with the handler's exception in flight: the
\* exception leaves execute_workflow and nothing is returned
Raise ==
    /\ pc = "finally_raising"
    /\ running' = FALSE
    /\ escaped' = error
    /\ pc' = "idle"
    /\ UNCHANGED <<resolver_vars, editor_vars, status_callback, steps, execution_mode, dry_run, heap, results,
                   resolver, idx, pending_steps, completed_steps, sweep, exec, reported,
                   run_reports, error, proc, calls_left, returned>>

\* abort(), called from another thread while a run is in progress
Abort ==
    /\ pc # "idle"
    /\ running
    /\ running' = FALSE
    /\ UNCHANGED <<resolver_vars, editor_vars, status_callback, escaped, steps, execution_mode, dry_run, heap,
                   results, resolver, pc, idx, pending_steps, completed_steps, sweep,
                   exec, reported, run_reports, error, proc, calls_left, returned>>

-----------------------------------------------------------------------------
(* _execute_step, as run by the driving thread or by a pool worker *)

\* up to the status callback that reports RUNNING; when the callback raises,
\* the call ends there
BeginStep(id) ==
    /\ exec' = [exec EXCEPT ![id] =
                  [phase |-> IF CallbackRaises("running") THEN "raised" ELSE "running",
                   result |-> ExecutionResult("running")]]
    /\ reported' = Report(id, "running")

\* _execute_step followed by the status callback of the completion loop
FinishStep_reported_again(id, outcome) ==
    LET result == execute_step(steps[id], id, outcome)
    IN  /\ IF ConsultsEnvironment(steps[id], id)
           THEN /\ outcome \in (IF proc[id] = "unset" THEN Outcomes ELSE {proc[id]})
                /\ proc' = [proc EXCEPT ![id] = outcome]
           ELSE /\ outcome = "exit0"
                /\ proc' = proc
        /\ exec' = [exec EXCEPT ![id] =
                      [phase |-> IF CallbackRaises(result.status) THEN "raised" ELSE "done",
                       result |-> result]]
        /\ reported' = [reported EXCEPT ![id] = @ \o <<result.status, result.status>>]

\* from resolving the command to the status callback that reports the result;
\* when that callback raises, nothing is returned
FinishStep(id, outcome) ==
    LET result == execute_step(steps[id], id, outcome)
    IN  /\ IF ConsultsEnvironment(steps[id], id)
           THEN /\ outcome \in (IF proc[id] = "unset" THEN Outcomes ELSE {proc[id]})
                /\ proc' = [proc EXCEPT ![id] = outcome]
           ELSE /\ outcome = "exit0"
                /\ proc' = proc
        /\ exec' = [exec EXCEPT ![id] =
                      [phase |-> IF CallbackRaises(result.status) THEN "raised" ELSE "done",
                       result |-> result]]
        /\ reported' = Report(id, result.status)

-----------------------------------------------------------------------------
(* _execute_sequential *)

SeqDisabled ==
    /\ pc = "sequential" /\ idx <= Len(steps)
    /\ ~steps[idx].enabled
    /\ idx' = idx + 1
    /\ UNCHANGED <<resolver_vars, editor_vars, status_callback, escaped, steps, execution_mode, dry_run, running,
                   heap, results, resolver, pc, pending_steps, completed_steps, sweep,
                   exec, reported, run_reports, error, proc, calls_left, returned>>

\* the sequential loop taking the same step again after it was executed
SeqAfterCallback_again(status) ==
    IF CallbackRaises(status)
    THEN pc' = "except" /\ error' = "CallbackError" /\ idx' = idx
    ELSE pc' = "sequential" /\ error' = error
         /\ idx' = IF status = "failed" THEN idx ELSE idx + 1

\* where the sequential loop stands after a status callback was called for a step
SeqAfterCallback(status) ==
    IF CallbackRaises(status)
    THEN pc' = "except" /\ error' = "CallbackError" /\ idx' = idx
    ELSE pc' = "sequential" /\ error' = error /\ idx' = idx + 1

SeqSkipDependencies ==
    /\ pc = "sequential" /\ idx <= Len(steps)
    /\ steps[idx].enabled
    /\ ~DependenciesMet(steps[idx].dependencies)
    /\ heap' = skip_step(idx, "Dependencies not successfully met.")
    /\ reported' = Report(idx, "skipped")
    /\ SeqAfterCallback("skipped")
    /\ UNCHANGED <<resolver_vars, editor_vars, status_callback, escaped, steps, execution_mode, dry_run, running,
                   results, resolver, pending_steps, completed_steps, sweep, exec,
                   run_reports, proc, calls_left, returned>>

SeqSkipCondition ==
    /\ pc = "sequential" /\ idx <= Len(steps)
    /\ steps[idx].enabled
    /\ DependenciesMet(steps[idx].dependencies)
    /\ ~evaluate_condition(steps[idx], idx)
    /\ heap' = skip_step(idx, "Condition not met.")
    /\ reported' = Report(idx, "skipped")
    /\ SeqAfterCallback("skipped")
    /\ UNCHANGED <<resolver_vars, editor_vars, status_callback, escaped, steps, execution_mode, dry_run, running,
                   results, resolver, pending_steps, completed_steps, sweep, exec,
                   run_reports, proc, calls_left, returned>>

SeqBegin ==
    /\ pc = "sequential" /\ idx <= Len(steps)
    /\ steps[idx].enabled
    /\ DependenciesMet(steps[idx].dependencies)
    /\ evaluate_condition(steps[idx], idx)
    /\ BeginStep(idx)
    /\ IF CallbackRaises("running")
       THEN pc' = "except" /\ error' = "CallbackError"
       ELSE pc' = "in_step" /\ error' = error
    /\ UNCHANGED <<resolver_vars, editor_vars, status_callback, escaped, steps, execution_mode, dry_run, running,
                   heap, results, resolver, idx, pending_steps, completed_steps, sweep,
                   run_reports, proc, calls_left, returned>>

SeqFinish ==
    /\ pc = "in_step"
    /\ \E outcome \in Outcomes :
          LET result == execute_step(steps[idx], idx, outcome)
          IN  /\ FinishStep(idx, outcome)
              /\ heap' = IF CallbackRaises(result.status) THEN heap
                         ELSE record_result(idx, result)
              /\ SeqAfterCallback(result.status)
    /\ UNCHANGED <<resolver_vars, editor_vars, status_callback, escaped, steps, execution_mode, dry_run, running,
                   results, resolver, pending_steps, completed_steps, sweep,
                   run_reports, calls_left, returned>>

SeqEnd ==
    /\ pc = "sequential" /\ idx > Len(steps)
    /\ pc' = "finally"
    /\ UNCHANGED <<resolver_vars, editor_vars, status_callback, escaped, steps, execution_mode, dry_run, running,
                   heap, results, resolver, idx, pending_steps, completed_steps, sweep,
                   exec, reported, run_reports, error, proc, calls_left, returned>>

-----------------------------------------------------------------------------
(* _execute_parallel *)

MaxPoolSize == 10

\* max_workers = min(10, len(workflow.steps) or 10)
max_workers ==
    LET n == IF Len(steps) = 0 THEN MaxPoolSize ELSE Len(steps)
    IN  IF n < MaxPoolSize THEN n ELSE MaxPoolSize

\* the keys of future_to_step (nothing is ever popped: see WaitRaises)
future_to_step == {s \in Steps : exec[s].phase # "none"}

\* first loop: a ready step that is not enabled is passed over
SubmitDisabled ==
    /\ pc = "submit" /\ idx <= Len(ready_steps)
    /\ ~steps[ready_steps[idx]].enabled
    /\ idx' = idx + 1
    /\ UNCHANGED <<resolver_vars, editor_vars, status_callback, escaped, steps, execution_mode, dry_run, running, heap, results, resolver, pc,
                   pending_steps, completed_steps, sweep, exec, reported, run_reports,
                   error, proc, calls_left, returned>>

\* first loop: executor.submit(self._execute_step, ...)
Submit ==
    /\ pc = "submit" /\ idx <= Len(ready_steps)
    /\ LET step_id == ready_steps[idx]
       IN  /\ steps[step_id].enabled
           /\ evaluate_condition(steps[step_id], step_id)
           /\ exec' = [exec EXCEPT ![step_id].phase = "queued"]
           /\ pending_steps' = pending_steps \ {step_id}
    /\ idx' = idx + 1
    /\ UNCHANGED <<resolver_vars, editor_vars, status_callback, escaped, steps, execution_mode, dry_run, running, heap, results, resolver, pc,
                   completed_steps, sweep, reported, run_reports,
                   error, proc, calls_left, returned>>

\* first loop: condition not met
SubmitSkip ==
    /\ pc = "submit" /\ idx <= Len(ready_steps)
    /\ LET step_id == ready_steps[idx]
       IN  /\ steps[step_id].enabled
           /\ ~evaluate_condition(steps[step_id], step_id)
           /\ heap' = skip_step(step_id, "Condition not met.")
           /\ reported' = Report(step_id, "skipped")
           /\ IF CallbackRaises("skipped")
              THEN /\ pc' = "shutdown" /\ error' = "CallbackError"
                   /\ UNCHANGED <<pending_steps, completed_steps, idx>>
              ELSE /\ pc' = pc /\ error' = error
                   /\ pending_steps' = pending_steps \ {step_id}
                   /\ completed_steps' = completed_steps \cup {step_id}
                   /\ idx' = idx + 1
    /\ UNCHANGED <<resolver_vars, editor_vars, status_callback, escaped, steps, execution_mode, dry_run, running, results, resolver,
                   sweep, exec, run_reports, proc, calls_left, returned>>

\* `while future_to_step:` with nothing in flight: leave the pool, go to the final loop
WhileEmpty ==
    /\ pc = "submit" /\ idx > Len(ready_steps)
    /\ future_to_step = {}
    /\ sweep' = pending_steps
    /\ pc' = "sweep"
    /\ UNCHANGED <<resolver_vars, editor_vars, status_callback, escaped, steps, execution_mode, dry_run, running, heap, results, resolver, idx,
                   pending_steps, completed_steps, exec, reported, run_reports,
                   error, proc, calls_left, returned>>

\* a wait that never returns
WaitRaises_blocks ==
    /\ pc = "submit" /\ idx > Len(ready_steps)
    /\ future_to_step # {}
    /\ pc' = "wait"
    /\ UNCHANGED <<resolver_vars, editor_vars, status_callback, escaped, steps,
                   execution_mode, dry_run, running, heap, results, resolver, idx,
                   pending_steps, completed_steps, sweep, exec, reported, run_reports,
                   error, proc, calls_left, returned>>

\* wait(future_to_step.keys(), return_when=FIRST_COMPLETED): the module imports
\* ThreadPoolExecutor and wait only, so evaluating the argument raises NameError
\* and the exception leaves the `with` block
WaitRaises ==
    /\ pc = "submit" /\ idx > Len(ready_steps)
    /\ future_to_step # {}
    /\ error' = "NameError"
    /\ pc' = "shutdown"
    /\ UNCHANGED <<resolver_vars, editor_vars, status_callback, escaped, steps, execution_mode, dry_run, running, heap, results, resolver, idx,
                   pending_steps, completed_steps, sweep, exec, reported, run_reports,
                   proc, calls_left, returned>>

\* ThreadPoolExecutor.__exit__: shutdown(wait=True), then the exception goes on
Shutdown ==
    /\ pc = "shutdown"
    /\ \A s \in Steps : exec[s].phase \notin {"queued", "running"}
    /\ pc' = "except"
    /\ UNCHANGED <<resolver_vars, editor_vars, status_callback, escaped, steps, execution_mode, dry_run, running, heap, results, resolver, idx,
                   pending_steps, completed_steps, sweep, exec, reported, run_reports,
                   error, proc, calls_left, returned>>

\* a pool worker takes a submitted step
WorkerBegin(id) ==
    /\ execution_mode = "parallel"
    /\ exec[id].phase = "queued"
    /\ Cardinality({s \in Steps : exec[s].phase = "running"}) < max_workers
    /\ BeginStep(id)
    /\ UNCHANGED <<resolver_vars, editor_vars, status_callback, escaped, steps, execution_mode, dry_run, running, heap, results, resolver, pc,
                   idx, pending_steps, completed_steps, sweep, run_reports,
                   error, proc, calls_left, returned>>

\* a worker that stores its result in the result map itself
WorkerFinish_records(id) ==
    /\ execution_mode = "parallel"
    /\ exec[id].phase = "running"
    /\ \E outcome \in Outcomes :
          /\ FinishStep(id, outcome)
          /\ heap' = record_result(id, execute_step(steps[id], id, outcome))
    /\ UNCHANGED <<resolver_vars, editor_vars, status_callback, escaped, steps,
                   execution_mode, dry_run, running, results, resolver, pc,
                   idx, pending_steps, completed_steps, sweep, run_reports,
                   error, calls_left, returned>>

\* the worker returns; the result stays in the future
WorkerFinish(id) ==
    /\ execution_mode = "parallel"
    /\ exec[id].phase = "running"
    /\ \E outcome \in Outcomes : FinishStep(id, outcome)
    /\ UNCHANGED <<resolver_vars, editor_vars, status_callback, escaped, steps, execution_mode, dry_run, running, heap, results, resolver, pc,
                   idx, pending_steps, completed_steps, sweep, run_reports,
                   error, calls_left, returned>>

\* final loop over pending_steps (a set: any order): dependencies not met
SweepSkip(id) ==
    /\ pc = "sweep" /\ id \in sweep
    /\ ~DependenciesMet(steps[id].dependencies)
    /\ heap' = skip_step(id, "Dependencies not successfully met.")
    /\ reported' = Report(id, "skipped")
    /\ IF CallbackRaises("skipped")
       THEN pc' = "except" /\ error' = "CallbackError" /\ sweep' = sweep
       ELSE pc' = pc /\ error' = error /\ sweep' = sweep \ {id}
    /\ UNCHANGED <<resolver_vars, editor_vars, status_callback, escaped, steps, execution_mode, dry_run, running, results, resolver, idx,
                   pending_steps, completed_steps, exec, run_reports,
                   proc, calls_left, returned>>

\* final loop: a pending step whose dependencies all succeeded is left as it is
SweepPass(id) ==
    /\ pc = "sweep" /\ id \in sweep
    /\ DependenciesMet(steps[id].dependencies)
    /\ sweep' = sweep \ {id}
    /\ UNCHANGED <<resolver_vars, editor_vars, status_callback, escaped, steps, execution_mode, dry_run, running, heap, results, resolver, pc,
                   idx, pending_steps, completed_steps, exec, reported, run_reports,
                   error, proc, calls_left, returned>>

SweepEnd ==
    /\ pc = "sweep" /\ sweep = {}
    /\ pc' = "finally"
    /\ UNCHANGED <<resolver_vars, editor_vars, status_callback, escaped, steps, execution_mode, dry_run, running, heap, results, resolver, idx,
                   pending_steps, completed_steps, sweep, exec, reported, run_reports,
                   error, proc, calls_left, returned>>

-----------------------------------------------------------------------------

Next ==
    \/ \E mode \in ExecutionMode : ExecuteWorkflow(mode)
    \/ \E mode \in ExecutionMode : PrepareSandboxFails(mode)
    \/ Handler
    \/ Return
    \/ Raise
    \/ Abort
    \/ SeqDisabled
    \/ SeqSkipDependencies
    \/ SeqSkipCondition
    \/ SeqBegin
    \/ SeqFinish
    \/ SeqEnd
    \/ SubmitDisabled
    \/ Submit
    \/ SubmitSkip
    \/ WhileEmpty
    \/ WaitRaises
    \/ Shutdown
    \/ \E id \in Steps : WorkerBegin(id)
    \/ \E id \in Steps : WorkerFinish(id)
    \/ \E id \in Steps : SweepSkip(id)
    \/ \E id \in Steps : SweepPass(id)
    \/ SweepEnd

Spec == Init /\ [][Next]_vars

SpecTwoCalls == InitTwoCalls /\ [][Next]_vars

SpecConditions == InitConditions /\ [][Next]_vars

SpecDecisions == InitDecisions /\ [][Next]_vars

\* the steps of the thread that called execute_workflow
DriverStep ==
    \/ Handler \/ Return \/ Raise
    \/ SeqDisabled \/ SeqSkipDependencies \/ SeqSkipCondition \/ SeqBegin \/ SeqFinish
    \/ SeqEnd
    \/ SubmitDisabled \/ Submit \/ SubmitSkip \/ WhileEmpty \/ WaitRaises \/ Shutdown
    \/ \E id \in Steps : SweepSkip(id) \/ SweepPass(id)
    \/ SweepEnd

\* every thread that can take a step takes one in the end, and a launched
\* command ends (by itself or at its timeout)
SpecTermination ==
    /\ InitTermination /\ [][Next]_vars
    /\ WF_vars(DriverStep)
    /\ \A id \in Steps : WF_vars(WorkerBegin(id) \/ WorkerFinish(id))

-----------------------------------------------------------------------------
(* Vocabulary of the properties *)

\* the run's result map, self.results
Res == heap[results]

\* a call of execute_workflow has returned and no other is in progress
Finished == pc = "idle" /\ returned # <<>> /\ escaped = "none"

\* the result map the last call returned
Final == heap[returned[Len(returned)].results]

Enabled == {s \in Steps : steps[s].enabled}

TerminalStatuses == {"success", "failed", "skipped", "timeout"}

StatusMap(m) == [s \in DOMAIN m |-> m[s].status]

-----------------------------------------------------------------------------
(* Properties *)

\* C1: in both modes, when step B depends on step A and A's result is failed or
\* timeout, B is never executed and the returned map records B as skipped, with a
\* message about dependencies.
C1_FailedDependencySkipsDependent ==
    \A a, b \in Steps :
        ( /\ a \in steps[b].dependencies
          /\ steps[b].enabled
          /\ exec[a].phase = "done"
          /\ exec[a].result.status \in {"failed", "timeout"} )
        => /\ exec[b].phase = "none"
           /\ Finished =>
                /\ b \in DOMAIN Final
                /\ Final[b].status = "skipped"
                /\ Final[b].error_message = "Dependencies not successfully met."

\* C2: in parallel mode a step is handed to the pool only when each of its
\* dependencies has a result with status success in the result map.
C2_SubmittedOnlyAfterDependenciesSucceed ==
    execution_mode = "parallel" =>
        \A s \in Steps :
            exec[s].phase # "none" =>
                \A d \in steps[s].dependencies :
                    d \in DOMAIN Res /\ Res[d].status = "success"

\* C2 witness: X and Y have both run to success in the pool while Z, which joins
\* them, has not been handed to the pool.
C2_Witness ==
    /\ execution_mode = "parallel"
    /\ \E x, y, z \in Steps :
          /\ x # y /\ steps[z].dependencies = {x, y} /\ steps[z].enabled
          /\ exec[x].phase = "done" /\ exec[x].result.status = "success"
          /\ exec[y].phase = "done" /\ exec[y].result.status = "success"
          /\ exec[z].phase = "none"

\* C3: during a run, once the result of the step before s is in the result map,
\* resolving {previous_step.exit_code} or {<name>.status} for s yields the
\* recorded value.
C3_ResolverReadsRecordedResults ==
    \A s \in Steps :
        (pc # "idle" /\ s > 1 /\ (s - 1) \in DOMAIN Res) =>
            /\ resolve(<<Ref("previous_step", "exit_code")>>, s)
                  = <<Lit(IntStr(Res[s - 1].exit_code))>>
            /\ resolve(<<Ref(Names[s - 1], "status")>>, s)
                  = <<Lit(Res[s - 1].status)>>

\* C4: a workflow without dependencies, run once in each mode by the same runner
\* (the commands behaving the same both times), returns maps with the same keys
\* and the same status for each step.
C4_SequentialAndParallelAgree ==
    ( /\ Len(returned) = 2
      /\ returned[1].mode # returned[2].mode
      /\ \A s \in Steps : steps[s].dependencies = {} )
    => StatusMap(heap[returned[1].results]) = StatusMap(heap[returned[2].results])

\* C5: when a parallel run returns, every enabled step is in the result map: a
\* submitted step with the result of its execution, a step never submitted for
\* want of a successful dependency as skipped, with a message about dependencies.
C5_ParallelResultMapComplete ==
    (Finished /\ execution_mode = "parallel") =>
        \A s \in Enabled :
            /\ s \in DOMAIN Final
            /\ exec[s].phase # "none" => Final[s] = exec[s].result
            /\ (exec[s].phase = "none" /\ ~DependenciesMet(steps[s].dependencies)) =>
                  /\ Final[s].status = "skipped"
                  /\ Final[s].error_message = "Dependencies not successfully met."

\* C6: when a sequential run returns without an engine-level exception, the keys
\* of the result map are exactly the enabled steps and every status is success,
\* failed, skipped or timeout.
C6_SequentialResultMapComplete ==
    (Finished /\ execution_mode = "sequential" /\ error = "none") =>
        /\ DOMAIN Final = Enabled
        /\ \A s \in DOMAIN Final : Final[s].status \in TerminalStatuses

\* C6 witness: a sequential run has returned in which a step failed, a step was
\* skipped, and a step declared after both was executed.
C6_Witness ==
    /\ Finished /\ execution_mode = "sequential" /\ error = "none"
    /\ \E a, b, c \in Steps :
          /\ a < c /\ b < c
          /\ {a, b, c} \subseteq DOMAIN Final
          /\ Final[a].status = "failed"
          /\ Final[b].status = "skipped"
          /\ Final[c].status = "success"

\* C7: in both modes a disabled step is not in the returned map, and every
\* enabled step that depends on a disabled step is recorded skipped.
C7_DisabledStepsAbsent ==
    Finished =>
        /\ \A s \in Steps \ Enabled : s \notin DOMAIN Final
        /\ \A s \in Enabled :
              (\E d \in steps[s].dependencies : d \notin Enabled) =>
                  s \in DOMAIN Final /\ Final[s].status = "skipped"

\* C8: a step whose command is still running at the timeout gets a result with
\* status timeout and exit code -1.
C8_TimeoutRecordedAsTimeout ==
    \A s \in Steps :
        (exec[s].phase = "done" /\ proc[s] = "timeout") =>
            exec[s].result.status = "timeout" /\ exec[s].result.exit_code = -1

\* C9: a step whose command could not be launched (not found on the search path,
\* or the launch itself failed) gets a result with status failed and exit code -1.
C9_LaunchFailureExitCode ==
    \A s \in Steps :
        (exec[s].phase = "done" /\ proc[s] \in {"notfound", "oserror"}) =>
            exec[s].result.status = "failed" /\ exec[s].result.exit_code = -1

\* C10: once abort() has cleared the running flag during a run, no step that has
\* not been started (sequential) or submitted (parallel) is started or submitted.
C10_NoStartAfterAbort ==
    [][ (pc # "idle" /\ ~running) =>
            \A s \in Steps : exec[s].phase = "none" => exec'[s].phase = "none" ]_vars

\* C11: when an exception leaves the scheduling loop and the status callback does
\* not raise in the handler, the call does not raise: the handler calls the status
\* callback once with a null step and a null status, the call returns the run's
\* result map, and no result recorded during the run is removed from it.
C11_FaultReportedOnceAndResultsKept ==
    [][ /\ (pc # "idle" =>
               \A s \in DOMAIN Res : s \in DOMAIN Res' /\ Res'[s] = Res[s])
        /\ (pc = "except" /\ ~CallbackRaises("null") /\ pc' # pc =>
               pc' = "finally" /\ error' # "none" /\ run_reports' = 1)
        /\ (pc = "finally" /\ pc' # pc =>
               /\ run_reports = (IF error = "none" THEN 0 ELSE 1)
               /\ escaped' = "none"
               /\ returned' = Append(returned, [mode |-> execution_mode,
                                                results |-> results])) ]_vars

\* a run that was cut short by an exception returned a map that holds a result
C11_Witness ==
    /\ Finished
    /\ error # "none"
    /\ run_reports = 1
    /\ DOMAIN Final # {}

\* C12: the running flag is set when a call of execute_workflow starts and is
\* false when the call has ended, whether it returned after a complete run,
\* returned after the handler caught an exception, or raised out of the handler.
C12_RunningFlagClearedOnExit ==
    [][ /\ (pc = "idle" /\ pc' # "idle" => running')
        /\ (pc' = "idle" => ~running') ]_vars

\* a call ended by the exception of the status callback called in the handler
C12_Witness ==
    /\ pc = "idle"
    /\ escaped = "CallbackError"
    /\ returned = <<>>
    /\ ~running

\* C13: in a dry run, in either mode, no command is ever launched, and when the
\* call has returned every step that was executed with a fully resolved command
\* is in the result map with status success and the dry-run text as stdout.
C13_DryRunRecordsSuccessWithoutProcess ==
    dry_run =>
        /\ \A s \in Steps : proc[s] = "unset"
        /\ Finished =>
              \A s \in Steps :
                  ( /\ exec[s].phase = "done"
                    /\ validate_variables(resolve(steps[s].command, s)) = {} ) =>
                      /\ s \in DOMAIN Final
                      /\ Final[s].status = "success"
                      /\ Final[s].stdout = <<"DRY RUN: Would execute">>

\* a linear chain in declaration order: each step depends on the one before it
LinearChain ==
    \A s \in Steps : steps[s].dependencies = (IF s = 1 THEN {} ELSE {s - 1})

\* C14: in sequential mode a step is begun only when every enabled step declared
\* before it has its result in the result map and none of them is still running,
\* whatever the dependency graph; and for a linear chain whose commands all exit 0
\* the returned map holds success for every step.
C14_SequentialDeclarationOrder ==
    execution_mode = "sequential" =>
        /\ \A s \in Steps :
              exec[s].phase # "none" =>
                  \A t \in Enabled :
                      t < s => t \in DOMAIN Res /\ exec[t].phase \in {"none", "done"}
        /\ ( Finished /\ LinearChain /\ \A s \in Steps : proc[s] = "exit0" ) =>
              \A s \in Steps : s \in DOMAIN Final /\ Final[s].status = "success"

\* the chain A -> B -> C ran sequentially, every command exited 0
C14_Witness ==
    /\ execution_mode = "sequential"
    /\ Finished
    /\ LinearChain
    /\ \A s \in Steps : proc[s] = "exit0" /\ exec[s].phase = "done"
    /\ \A s \in Steps : s \in DOMAIN Final /\ Final[s].status = "success"

\* step s runs only if the step declared before it exited 0, and that step exited 1
GuardedByFailedPrevious(s) ==
    /\ s > 1
    /\ steps[s].enabled
    /\ steps[s].condition_type = "if"
    /\ steps[s].condition_expression = PreviousExitedZero
    /\ exec[s - 1].phase = "done"
    /\ exec[s - 1].result.exit_code = 1

SkippedOnCondition(s) ==
    /\ exec[s].phase = "none"
    /\ s \in DOMAIN Final
    /\ Final[s].status = "skipped"
    /\ Final[s].error_message = "Condition not met."

ResolverBuilt == resolver.execution_results # 0

\* step s has a condition to evaluate
Conditional(s) ==
    steps[s].condition_type # "none" /\ steps[s].condition_expression # <<>>

\* the text has something that is neither an integer literal, nor a boolean
\* literal, nor one of the six comparison operators
OutsideGrammar(text) ==
    \E i \in 1..Len(text) :
        \/ text[i].k # "lit"
        \/ ~(IsIntStr(text[i].a) \/ text[i].a \in {"True", "False"} \cup ComparisonOps)

\* C16: a condition whose resolved text holds anything but integer and boolean
\* literals and the six comparison operators (an identifier, a call, an attribute
\* access, an unresolved token) is rejected: the decision is not to run, and the
\* step is never executed.
C16_OnlyLiteralsAndComparisonsEvaluated ==
    ResolverBuilt =>
        \A s \in Steps :
            ( /\ Conditional(s)
              /\ OutsideGrammar(resolve(steps[s].condition_expression, s)) ) =>
                /\ ~evaluate_condition(steps[s], s)
                /\ exec[s].phase = "none"

\* evaluating the condition of step s raises inside evaluate_condition
EvaluationFails(s) ==
    LET resolved_expression == resolve(steps[s].condition_expression, s)
    IN  /\ Contains(resolved_expression, "True") = Contains(resolved_expression, "False")
        /\ eval(resolved_expression).raised

\* C17: when the evaluation of a step's condition fails, evaluate_condition
\* returns false, under condition_type if and under unless alike; the step is
\* never executed, any result recorded for it is a skip, and a sequential run
\* that reaches its condition records it skipped on the condition.
C17_EvaluationFailureSkips ==
    ResolverBuilt =>
        \A s \in Steps :
            (Conditional(s) /\ EvaluationFails(s)) =>
                /\ ~evaluate_condition([steps[s] EXCEPT !.condition_type = "if"], s)
                /\ ~evaluate_condition([steps[s] EXCEPT !.condition_type = "unless"], s)
                /\ exec[s].phase = "none"
                /\ s \in DOMAIN Res => Res[s].status = "skipped"
                /\ ( /\ execution_mode = "sequential" /\ Finished /\ error = "none"
                     /\ steps[s].enabled
                     /\ \A d \in steps[s].dependencies : d < s
                     /\ DependenciesMet(steps[s].dependencies) ) => SkippedOnCondition(s)

\* an `unless` step whose condition failed to evaluate was skipped, not run
C17_Witness ==
    /\ execution_mode = "sequential" /\ Finished /\ error = "none"
    /\ \E s \in Steps :
          /\ steps[s].enabled
          /\ steps[s].condition_type = "unless"
          /\ EvaluationFails(s)
          /\ SkippedOnCondition(s)

\* condition expressions: comparisons of an integer with 1, the single literals,
\* a comparison of the booleans, and the expressions of the workflows
ConditionTexts ==
    {<<Lit(a), Lit(op), Lit("1")>> : a \in {"0", "1", "2"}, op \in ComparisonOps}
    \cup {<<Lit(a)>> : a \in {"0", "1", "True", "False"}}
    \cup {<<Lit("True"), Lit("=="), Lit("False")>>}
    \cup {PreviousExitedZero, CallsMethod, NamesIdentifier, NeverTrue}

\* the decision for step s had it the given condition
Decision(s, condition_type, condition_expression) ==
    evaluate_condition([steps[s] EXCEPT !.condition_type = condition_type,
                                        !.condition_expression = condition_expression], s)

\* evaluating the text as the condition of step s raises
TextFails(s, text) ==
    LET resolved_expression == resolve(text, s)
    IN  /\ Contains(resolved_expression, "True") = Contains(resolved_expression, "False")
        /\ eval(resolved_expression).raised

\* C18: wherever a scheduling loop stands, whatever the results so far, for every
\* step and every non-empty condition expression that evaluates without error
\* the decision under unless is the negation of the decision under if; and the
\* decision is true under condition_type none and for the empty expression.
C18_UnlessNegatesIf ==
    (ResolverBuilt /\ pc \in {"sequential", "submit"}) =>
        \A s \in Steps :
            /\ \A text \in ConditionTexts :
                  /\ ~TextFails(s, text) =>
                        Decision(s, "unless", text) = ~Decision(s, "if", text)
                  /\ Decision(s, "none", text)
            /\ \A condition_type \in {"none", "if", "unless"} :
                  Decision(s, condition_type, <<>>)

\* a step guarded by unless "1 == 2" was executed
C18_Witness ==
    \E s \in Steps :
        /\ steps[s].condition_type = "unless"
        /\ steps[s].condition_expression = NeverTrue
        /\ ~Decision(s, "if", NeverTrue)
        /\ exec[s].phase = "done"

\* the steps reached from the set S along at most n dependency edges
RECURSIVE ReachableFrom(_, _)
ReachableFrom(S, n) ==
    IF n = 0 THEN S
    ELSE ReachableFrom(S \cup UNION {steps[x].dependencies : x \in S}, n - 1)

\* step s depends on itself, directly or through other steps
OnCycle(s) == s \in ReachableFrom(steps[s].dependencies, NumSteps)

\* the run met no failure of its surroundings (sandbox directory, status callback)
NoOutsideFault == error \in {"none", "NameError"}

\* C19: in both modes a step on a dependency cycle (a self-dependency included)
\* is never executed, and when the run has ended every enabled step on a cycle
\* is in the result map with status skipped.
C19_CycleStepsSkipped ==
    \A s \in Steps :
        OnCycle(s) =>
            /\ exec[s].phase = "none"
            /\ (Finished /\ NoOutsideFault /\ steps[s].enabled) =>
                  s \in DOMAIN Final /\ Final[s].status = "skipped"

\* the status reports a step can have received during a run
ReportSequences ==
    {<<>>, <<"skipped">>, <<"running">>}
    \cup {<<"running", t>> : t \in {"success", "failed", "timeout"}}

\* C20: in every run the statuses reported for a step through the status callback
\* are a single skipped, or one running followed by exactly one of success, failed
\* and timeout, or a beginning of such a sequence while the run is under way;
\* nothing follows a terminal status. A step whose execution has ended has had
\* running and then the status of its result reported.
C20_ReportedStatusSequence ==
    \A s \in Steps :
        /\ reported[s] \in ReportSequences
        /\ exec[s].phase = "done" => reported[s] = <<"running", exec[s].result.status>>
        /\ exec[s].phase = "none" => reported[s] \in {<<>>, <<"skipped">>}

\* one step was reported skipped, another running and then failed
C20_Witness ==
    /\ Finished
    /\ \E s, t \in Steps :
          /\ reported[s] = <<"skipped">>
          /\ reported[t] = <<"running", "failed">>
          /\ exec[t].phase = "done"

\* the places of the {tokens} of a text
Placeholders(text) == {i \in 1..Len(text) : text[i].k \in {"var", "ref"}}

\* a call has been made on the resolver
Called == call # NoCall

\* C21 as stated: validate_variables(text) is empty when every token of text is
\* a key of the variable mapping, non-empty when some token is not, and reports
\* every dot-reference token, whether or not the referenced step has a result.
C21_ValidateReportsNonKeysAndReferences ==
    Called =>
        /\ (\A i \in Placeholders(call.text) :
               Name(call.text[i]) \in DOMAIN resolver.variables) => call.unresolved = {}
        /\ (\E i \in Placeholders(call.text) :
               Name(call.text[i]) \notin DOMAIN resolver.variables) => call.unresolved # {}
        /\ \A i \in Placeholders(call.text) :
               call.text[i].k = "ref" => i \in call.unresolved

\* C21, amended: the same, a dot-reference token being reported unless the
\* token as it stands is a key of the variable mapping.
C21_ValidateReportsNonKeys ==
    Called =>
        /\ (\A i \in Placeholders(call.text) :
               Name(call.text[i]) \in DOMAIN resolver.variables) => call.unresolved = {}
        /\ (\E i \in Placeholders(call.text) :
               Name(call.text[i]) \notin DOMAIN resolver.variables) => call.unresolved # {}
        /\ \A i \in Placeholders(call.text) :
               (call.text[i].k = "ref" /\ Name(call.text[i]) \notin DOMAIN resolver.variables)
                   => i \in call.unresolved

\* {previous_step.exit_code} was reported for the second step while the first
\* step's result was there and resolve() replaced the token
C21_Witness ==
    /\ Called
    /\ call.text = <<Ref("previous_step", "exit_code")>>
    /\ call.current_step_id = 2
    /\ 1 \in DOMAIN heap[resolver.execution_results]
    /\ call.resolved # call.text
    /\ call.unresolved = {1}

\* C22: for the resolver of a run, a {previous_step.<property>} token resolved
\* for step s is replaced by the property of the recorded result of the step
\* declared just before s, whatever the dependencies and the enabled flags; it
\* is left as it stands when s is the first step or that step has no recorded
\* result.
C22_PreviousStepIsPositional ==
    ResolverBuilt =>
        \A s \in Steps, property \in SupportedProperties :
            LET token == Ref("previous_step", property)
            IN  IF s > 1 /\ (s - 1) \in DOMAIN Res
                THEN resolve(<<token>>, s) = <<PropertyText(Res[s - 1], property)>>
                ELSE resolve(<<token>>, s) = <<token>>

SkippedOnDependencies(s) ==
    /\ exec[s].phase = "none"
    /\ s \in DOMAIN Res
    /\ Res[s].status = "skipped"
    /\ Res[s].error_message = "Dependencies not successfully met."

\* C23: in a sequential run, once the loop has passed an enabled step that is
\* declared before one of its dependencies, the step is recorded skipped for its
\* dependencies and stays so to the end of the run, never executed, whatever
\* becomes of the dependency.
C23_DeclaredBeforeDependencySkipped ==
    execution_mode = "sequential" =>
        \A s \in Enabled :
            (idx > s /\ \E d \in steps[s].dependencies : d > s) => SkippedOnDependencies(s)

\* the dependency declared later ran and succeeded, the dependent stayed skipped
C23_Witness ==
    /\ execution_mode = "sequential" /\ Finished /\ error = "none"
    /\ \E s \in Enabled :
          \E d \in steps[s].dependencies :
              /\ d > s
              /\ d \in DOMAIN Final /\ Final[d].status = "success"
              /\ exec[d].phase = "done"
              /\ SkippedOnDependencies(s)

\* C24: a step executed with a command that still holds a {token} after
\* resolution has a failed result with the message about unresolved variables,
\* no command was launched for it, in a real and in a dry run, and when the call
\* has returned that result is in the result map.
C24_UnresolvedCommandRecordedFailed ==
    \A s \in Steps :
        ( /\ exec[s].phase = "done"
          /\ validate_variables(resolve(steps[s].command, s)) # {} ) =>
            /\ exec[s].result.status = "failed"
            /\ exec[s].result.error_message = "Unresolved variables"
            /\ proc[s] = "unset"
            /\ Finished => (s \in DOMAIN Final /\ Final[s] = exec[s].result)

\* how many times _execute_step was entered for step s in this run
Executions(s) == Cardinality({i \in DOMAIN reported[s] : reported[s][i] = "running"})

C27_WorkersLeaveResultMapAlone ==
    [][ /\ (\E id \in Steps : WorkerBegin(id) \/ WorkerFinish(id)) =>
               (results' = results /\ heap'[results] = heap[results])
        /\ (execution_mode' = "parallel" /\ pc' \in {"submit", "shutdown", "sweep"}) =>
               resolver'.execution_results # results' ]_vars

\* a worker has returned a result while the map holds a skip the driver recorded
C27_Witness ==
    /\ execution_mode = "parallel"
    /\ pc = "submit"
    /\ \E s, t \in Steps :
          /\ exec[s].phase = "done" /\ s \notin DOMAIN Res
          /\ exec[t].phase = "running"
          /\ \E u \in DOMAIN Res : Res[u].status = "skipped"

\* C28: every call of execute_workflow starts from an empty result map that is a
\* new object, different from every map an earlier call returned, and no step of
\* the program changes a map that was already returned: the map of a second run
\* holds nothing of the first run and the first run's map stays as returned.
C28_FreshResultMapPerCall ==
    [][ /\ \A i \in DOMAIN returned :
              heap'[returned[i].results] = heap[returned[i].results]
        /\ (\E mode \in ExecutionMode :
                ExecuteWorkflow(mode) \/ PrepareSandboxFails(mode)) =>
              /\ heap'[results'] = <<>>
              /\ \A i \in DOMAIN returned : results' # returned[i].results ]_vars

\* two runs have returned, the first map holding a step the second does not
C28_Witness ==
    /\ Len(returned) = 2
    /\ returned[1].results # returned[2].results
    /\ \E s \in DOMAIN heap[returned[1].results] :
          s \notin DOMAIN heap[returned[2].results]

-----------------------------------------------------------------------------
(* The editor: the workflow being edited, its canvas, and "run from step" *)

\* the variables of the runner and of a resolver used on its own
runner_vars ==
    <<steps, execution_mode, dry_run, running, heap, results, resolver, pc, idx,
      pending_steps, completed_steps, sweep, exec, reported, run_reports, error,
      proc, calls_left, returned, status_callback, escaped, call>>

\* the fields of a WorkflowStep the editor's connections read and write
StepObject(id, dependencies) == [id |-> id, dependencies |-> dependencies]

\* the elements of a list
Elements(list) == {list[i] : i \in DOMAIN list}

\* a set of ids written as a list, in increasing order
RECURSIVE Listed(_)
Listed(S) ==
    IF S = {} THEN <<>>
    ELSE LET least == CHOOSE x \in S : \A y \in S : x <= y
         IN  <<least>> \o Listed(S \ {least})

\* next((s for s in self.app.current_workflow.steps if s.id == id), None):
\* the first step object of the edited workflow with this id, 0 for None
StepWithId(id) ==
    LET found == {i \in DOMAIN current_workflow : objects[current_workflow[i]].id = id}
    IN  IF found = {} THEN 0
        ELSE current_workflow[CHOOSE i \in found : \A j \in found : i <= j]

\* for dep_id in dependencies: if dep_id not in visited: add it, append it to q
RECURSIVE Enqueue(_, _, _)
Enqueue(dependencies, q, visited) ==
    IF dependencies = <<>> THEN [q |-> q, visited |-> visited]
    ELSE IF Head(dependencies) \in visited
         THEN Enqueue(Tail(dependencies), q, visited)
         ELSE Enqueue(Tail(dependencies), Append(q, Head(dependencies)),
                      visited \cup {Head(dependencies)})

\* the while loop of is_circular_dependency
RECURSIVE Search(_, _, _)
Search(q, visited, start_id) ==
    IF q = <<>> THEN FALSE
    ELSE LET current_id == Head(q)
             current_step == StepWithId(current_id)
         IN  IF current_id = start_id THEN TRUE
             ELSE IF current_step = 0 THEN Search(Tail(q), visited, start_id)
             ELSE LET next == Enqueue(objects[current_step].dependencies, Tail(q), visited)
                  IN  Search(next.q, next.visited, start_id)

\* is_circular_dependency(start_step, end_step), on step objects
is_circular_dependency(start_step, end_step) ==
    Search(<<objects[end_step].id>>, {objects[end_step].id}, objects[start_step].id)

\* the nodes of the canvas, one for each step of the edited workflow
Nodes == Elements(current_workflow)

\* start_connection: the node under the pointer, 0 when there is none
start_connection(node) ==
    /\ IF node # 0
       THEN connection_start_node' = node
       ELSE UNCHANGED connection_start_node
    /\ UNCHANGED <<runner_vars, objects, current_workflow, run_workflow>>

\* end_connection: the node under the pointer, 0 when there is none
end_connection(end_node) ==
    /\ IF connection_start_node = 0
       THEN UNCHANGED <<connection_start_node, objects>>
       ELSE LET start_node == connection_start_node
            IN  /\ connection_start_node' = 0
                /\ IF /\ end_node # 0
                      /\ end_node # start_node
                      /\ ~is_circular_dependency(start_node, end_node)
                      /\ objects[start_node].id \notin Elements(objects[end_node].dependencies)
                   THEN objects' = [objects EXCEPT ![end_node].dependencies =
                                        Append(@, objects[start_node].id)]
                   ELSE UNCHANGED objects
    /\ UNCHANGED <<runner_vars, current_workflow, run_workflow>>

\* copy.deepcopy of the edited workflow: new step objects, equal to the old ones
deepcopy(workflow) ==
    [objects |-> objects \o [i \in DOMAIN workflow |-> objects[workflow[i]]],
     steps |-> [i \in DOMAIN workflow |-> Len(objects) + i]]

\* run_from_step(step_id), up to the workflow it hands to run_workflow; the run
\* itself reads the steps and writes none of their fields
run_from_step(step_id) ==
    /\ calls_left > 0
    /\ LET found == {i \in DOMAIN current_workflow :
                        objects[current_workflow[i]].id = step_id}
       IN  IF found = {}
           THEN UNCHANGED <<calls_left, objects, run_workflow>>
           ELSE LET start_index == CHOOSE i \in found : \A j \in found : i <= j
                    copied == deepcopy(current_workflow)
                    run_steps == SubSeq(current_workflow, start_index,
                                        Len(current_workflow))
                IN  /\ calls_left' = calls_left - 1
                    /\ objects' = IF run_steps # <<>>
                                  THEN [copied.objects EXCEPT
                                           ![run_steps[1]].dependencies = <<>>]
                                  ELSE copied.objects
                    /\ run_workflow' = run_steps
    /\ UNCHANGED <<steps, execution_mode, dry_run, running, heap, results, resolver,
                   pc, idx, pending_steps, completed_steps, sweep, exec, reported,
                   run_reports, error, proc, returned, status_callback, escaped,
                   call, current_workflow, connection_start_node>>

\* the steps a step depends on, as the edited workflow has them
DependenciesOf(id) ==
    IF StepWithId(id) = 0 THEN {} ELSE Elements(objects[StepWithId(id)].dependencies)

\* the ids reached from the set S along at most n dependencies of the edited workflow
RECURSIVE Requires(_, _)
Requires(S, n) ==
    IF n = 0 THEN S
    ELSE Requires(S \cup UNION {DependenciesOf(x) : x \in S}, n - 1)

\* no step of the edited workflow depends on itself, directly or through others
Acyclic ==
    \A n \in Nodes : objects[n].id \notin Requires(DependenciesOf(objects[n].id), NumSteps)

\* dependency graphs without a cycle, as edges <<step, dependency>>
AcyclicGraphs ==
    {E \in SUBSET (Steps \X Steps) :
        \E rank \in [Steps -> Steps] : \A e \in E : rank[e[1]] > rank[e[2]]}

\* an editor with a workflow of NumSteps steps open, the user about to run it
\* from a step at most `calls` times, and no runner running
EditorOpen(calls) ==
    /\ steps \in [Steps -> {WorkflowStep(TRUE, {}, "none", <<>>, PlainCommand)}]
    /\ execution_mode = "sequential"
    /\ dry_run = FALSE
    /\ running = FALSE
    /\ heap = << <<>> >>
    /\ results = 1
    /\ resolver = [variables |-> GlobalVars, execution_results |-> 0]
    /\ pc = "idle"
    /\ idx = 0
    /\ pending_steps = {}
    /\ completed_steps = {}
    /\ sweep = {}
    /\ exec = [s \in Steps |-> NoExec]
    /\ reported = [s \in Steps |-> <<>>]
    /\ run_reports = 0
    /\ error = "none"
    /\ proc = [s \in Steps |-> "unset"]
    /\ calls_left = calls
    /\ returned = <<>>
    /\ status_callback = {}
    /\ escaped = "none"
    /\ call = NoCall
    /\ \E E \in AcyclicGraphs :
          objects = [i \in Steps |-> StepObject(i, Listed({d \in Steps : <<i, d>> \in E}))]
    /\ current_workflow = [i \in Steps |-> i]
    /\ run_workflow = <<>>
    /\ connection_start_node = 0

InitCanvas == EditorOpen(0)

NextCanvas ==
    \/ \E node \in Nodes \cup {0} : start_connection(node)
    \/ \E end_node \in Nodes \cup {0} : end_connection(end_node)

SpecCanvas == InitCanvas /\ [][NextCanvas]_vars

InitEditor == EditorOpen(MaxCalls)

NextEditor ==
    \/ NextCanvas
    \/ \E step_id \in Steps \cup {UnknownStep} : run_from_step(step_id)

SpecEditor == InitEditor /\ [][NextEditor]_vars

\* C29: the canvas never creates a dependency cycle: an end_connection on an
\* acyclic graph leaves the graph acyclic, and it turns a connection down as
\* circular only when making the end step depend on the start step would put a
\* step on a cycle.
C29_CanvasKeepsGraphAcyclic ==
    [][ \A end_node \in Nodes :
           (Acyclic /\ connection_start_node # 0 /\ end_node # connection_start_node
              /\ end_connection(end_node)) =>
               /\ Acyclic'
               /\ is_circular_dependency(connection_start_node, end_node) =>
                     objects[end_node].id \in
                         Requires(DependenciesOf(objects[connection_start_node].id),
                                  NumSteps) ]_vars

\* C30: run_from_step leaves the edited workflow as it was: the same steps, each
\* with the dependency list it had before the call.
C30_RunFromStepKeepsCurrentWorkflow ==
    [][ \A step_id \in Steps \cup {UnknownStep} :
           run_from_step(step_id) =>
               /\ current_workflow' = current_workflow
               /\ \A i \in DOMAIN current_workflow :
                     objects'[current_workflow[i]] = objects[current_workflow[i]] ]_vars

====
